---- MODULE Spec2Model ----
(***************************************************************************)
(* Procedural bamboo growth engine of TerraTwin: the schematic engine      *)
(* (BambooSimulation.ts: BambooClump), its React driver                    *)
(* (BambooSimulationComponent.tsx), the geo-referenced layout generator   *)
(* (CesiumPlotTerrain.tsx: addBambooPlants), the income derivation of      *)
(* FloatingDataCards, the viewer effects of CesiumPlotTerrain and          *)
(* CesiumLandscape, and the year handling of FarmerPlotView.               *)
(*                                                                         *)
(* Numbers are fixed point.  Lengths (positions, radii, thicknesses,       *)
(* heights) are in units of 1e-4; progress is in hundredths (0..100);      *)
(* simulated time and stalk ages are in tenths of a year; a value drawn    *)
(* from Math.random() is in thousandths (0..999).                          *)
(***************************************************************************)
EXTENDS Integers, Sequences, FiniteSets, TLC

VARIABLES
  clumpA, retA,   \* a BambooClump and what its last update returned
  clumpB, retB,   \* a second, independent BambooClump
  harvestLog,     \* clumpA's last update: its harvest draw, whether the pass ran
  calls,          \* update calls made on the pair of clumps
  curveIn,        \* two arguments handed to a growth curve
  curveOut,       \* the heights and pole counts the curve gave for them
  autoPlay,         \* BambooSimulationComponent: the autoPlay prop
  simulationRef,    \* simulationRef.current is set
  isAnimating,      \* state isAnimating
  currentTimeValue, \* state currentTimeValue, tenths of a year
  time,             \* `time` of the animate closure now scheduled
  animationFrame,   \* a requestAnimationFrame(animate) callback is pending
  keepAlive,        \* the keepAnimationRunning interval and what it captured
  engineProgress,   \* progress last passed to simulation.update, hundredths
  lastOp,           \* the driver operation that ran last
  requested,        \* the last of play / pause asked of the driver
  viewerA,        \* a CesiumPlotTerrain view: its plot, year and entities
  viewerB,        \* a second, independent view
  mathRandom,     \* what Math.random() would give next, 1e-4
  placing,        \* a call of addNewPoles in progress: its loop variables
  mounted,          \* BambooSimulationComponent is mounted
  webglError,       \* state webglError: the fallback is what is rendered
  sims,             \* the BambooSimulation objects constructed so far
  constructError,   \* what the last new BambooSimulation(...) threw
  resizeListener,   \* handleResize is registered on window
  raised,           \* a handler of the component raised
  cards,          \* FloatingDataCards: its props and the incomes it derived
  carbonCall,     \* a call of calculateCarbon: its arguments and its value
  terrain,        \* CesiumPlotTerrain: script, viewer and what is drawn
  landscape,      \* CesiumLandscape: its initViewer runs and its viewers
  page            \* FarmerPlotView: the call chain of one year change

clumpVars == <<clumpA, retA, clumpB, retB, harvestLog, calls>>
curveVars == <<curveIn, curveOut>>
driverVars == <<autoPlay, simulationRef, isAnimating, currentTimeValue, time,
                animationFrame, keepAlive, engineProgress, lastOp, requested>>
geoVars == <<viewerA, viewerB, mathRandom>>
placeVars == <<placing>>
lifeRest == <<mounted, webglError, sims, constructError, resizeListener>>
lifeVars == <<lifeRest, raised>>
uiVars == <<cards, carbonCall, terrain, landscape, page>>

(***************************************************************************)
(* Arithmetic helpers                                                      *)
(***************************************************************************)
Min(a, b) == IF a < b THEN a ELSE b
Max(a, b) == IF a > b THEN a ELSE b
Abs(a) == IF a < 0 THEN -a ELSE a

\* Math.ceil(n / d) for n >= 0, d > 0
CeilDiv(n, d) == (n + d - 1) \div d

\* <<floor(a*n/d), (a*n) mod d>> without leaving 32 bits (n <= d <= 2*10^6)
RECURSIVE MulDivMod(_, _, _)
MulDivMod(a, n, d) ==
  IF a < 1000
    THEN <<(a * n) \div d, (a * n) % d>>
    ELSE LET pr == MulDivMod(a \div 10, n, d)
             num == 10 * pr[2] + (a % 10) * n
         IN  <<10 * pr[1] + num \div d, num % d>>

MulDiv(a, n, d) == MulDivMod(a, n, d)[1]

\* The square of the distance between two positions on the ground
Distance2(p, q) == (p.x - q.x) * (p.x - q.x) + (p.z - q.z) * (p.z - q.z)

(***************************************************************************)
(* Growth curve of the schematic engine                                    *)
(***************************************************************************)
ExpScale == 1000000

\* Math.exp(-0.15 * k) * 10^6 for k = 0..70: the values Math.exp takes in
\* 1 / (1 + Math.exp(-growthRate * (progress - midpoint))) on the grid of
\* hundredths of progress (growthRate = 15, |progress - midpoint| = k / 100).
ExpNeg15 ==
  <<1000000, 860708, 740818, 637628, 548812, 472367, 406570, 349938, 301194,
    259240, 223130, 192050, 165299, 142274, 122456, 105399, 90718, 78082,
    67206, 57844, 49787, 42852, 36883, 31746, 27324, 23518, 20242, 17422,
    14996, 12907, 11109, 9562, 8230, 7083, 6097, 5248, 4517, 3887, 3346, 2880,
    2479, 2133, 1836, 1581, 1360, 1171, 1008, 867, 747, 643, 553, 476, 410,
    353, 304, 261, 225, 194, 167, 143, 123, 106, 91, 79, 68, 58, 50, 43, 37,
    32, 28>>

growthRate == 15
midpoint == 30

\* Mutant of Sigmoid: the exponent with its sign lost, a falling curve
SigmoidFalling(progress) ==
  LET k == progress - midpoint
      e == ExpNeg15[(growthRate * Abs(k)) \div 15 + 1]
  IN  IF k >= 0 THEN <<e, ExpScale + e>> ELSE <<ExpScale, ExpScale + e>>

\* 1 / (1 + Math.exp(-growthRate * (progress - midpoint))) as the fraction
\* <<numerator, denominator>>; progress in hundredths, 0..100
Sigmoid(progress) ==
  LET k == progress - midpoint
      e == ExpNeg15[(growthRate * Abs(k)) \div 15 + 1]
  IN  IF k >= 0 THEN <<ExpScale, ExpScale + e>> ELSE <<e, ExpScale + e>>

maxHeight == 25500
minHeight == 5000
maxPoles == 100
minPoles == 5

calculateHeight(progress) ==
  LET s == Sigmoid(progress)
  IN  minHeight + MulDiv(maxHeight - minHeight, s[1], s[2])

calculatePoleCount(progress) ==
  LET s == Sigmoid(progress)
  IN  minPoles + MulDiv(maxPoles - minPoles, s[1], s[2])

\* Mutant of calculateCarbon: the height counted from minHeight
calculateCarbonAboveMin(height, poleCount) ==
  LET x == (height - minHeight) * poleCount * 175
      den == 4860000
  IN  (2 * x + den) \div (2 * den)

\* parseFloat(((height / 27) * (poleCount / 90) * 87.5).toFixed(1)), in tenths
calculateCarbon(height, poleCount) ==
  LET x == height * poleCount * 175
      den == 4860000
  IN  (2 * x + den) \div (2 * den)

(***************************************************************************)
(* Growth curve of the geo-referenced renderer (addBambooPlants)           *)
(***************************************************************************)
\* Math.max(0, Math.min(1, (year - 2024) / 11)), in elevenths
geoProgress(year) == Max(0, Min(11, year - 2024))

\* Math.exp(-|growthRate * (n / 11 - 0.3)|) * 10^6 for n = 0..11
ExpNegGeo ==
  <<11109, 43440, 169869, 664254, 384987, 98452, 25177, 6439, 1647, 421, 108,
    28>>

\* 1 / (1 + Math.exp(-growthRate * (progress - midpoint))), progress = n / 11
GeoSigmoid(n) ==
  LET e == ExpNegGeo[n + 1]
  IN  IF 100 * n >= 11 * midpoint THEN <<ExpScale, ExpScale + e>>
                                  ELSE <<e, ExpScale + e>>

geoMaxHeight == 250000
geoMaxPoles == 50

baseHeight(year) ==
  LET s == GeoSigmoid(geoProgress(year))
  IN  minHeight + MulDiv(geoMaxHeight - minHeight, s[1], s[2])

poleCountPerClump(year) ==
  LET s == GeoSigmoid(geoProgress(year))
  IN  minPoles + MulDiv(geoMaxPoles - minPoles, s[1], s[2])

(***************************************************************************)
(* Layout generator of the geo-referenced renderer (addBambooPlants).      *)
(* A plot keeps latitude and longitude in thousandths of a degree and      *)
(* areaHectares in units of 1e-4 ha (square metres).  A seededRandom value *)
(* is in units of 1e-4 (0..9999).  An entity's position is kept as its     *)
(* offset east and north of the plot's centre, 1e-4 m: fromDegrees is      *)
(* given plot.latitude + north / 111320 and the matching longitude.        *)
(***************************************************************************)
\* plotSeed of the first plot modelled; the tables below start at this seed
FirstSeed == 3000

\* floor(seededRandom(seed) * 10^4) for seed = FirstSeed .. FirstSeed + 415,
\* seededRandom(seed) = x - Math.floor(x), x = Math.sin(seed * 9999) * 10000
SeededRandomTable ==
  <<9469, 968, 6597, 8073, 99, 669, 4277, 9688, 9217, 4015, 5327, 4677,
    4010, 4369, 2293, 1909, 5420, 1719, 852, 7963, 7705, 515, 4463, 8600,
    2140, 9460, 449, 3442, 3115, 2632, 6279, 3053, 981, 1800, 3206, 1576,
    2562, 1258, 5121, 8234, 5371, 1062, 1594, 7119, 4310, 4498, 5313, 1226,
    2458, 6283, 6617, 8702, 1191, 75, 9382, 4527, 2961, 6262, 7373, 1305,
    9993, 7822, 7082, 4190, 8150, 1001, 9562, 7128, 3013, 5877, 2501, 2101,
    4219, 1366, 4740, 7795, 7586, 9582, 3906, 8338, 5077, 7871, 8653, 5519,
    1987, 544, 4557, 6657, 2174, 7789, 5399, 3495, 8859, 2961, 6677, 8308,
    182, 252, 4056, 1494, 7172, 5201, 3054, 2580, 454, 4115, 3427, 3180,
    4815, 7512, 5459, 6918, 9518, 8376, 5540, 4274, 8420, 3120, 1302, 9777,
    7313, 9810, 7868, 2215, 2731, 1242, 6719, 320, 4692, 7095, 5731, 6512,
    4679, 5806, 9947, 3873, 1101, 9275, 3802, 8751, 4136, 8419, 3584, 3437,
    6953, 3303, 6475, 9398, 365, 3454, 6976, 1859, 5848, 8584, 5475, 3525,
    417, 5034, 8235, 7679, 8880, 2077, 2380, 5416, 1720, 3220, 4929, 2778,
    1830, 9404, 5962, 6338, 9567, 202, 9548, 2108, 1720, 7716, 1821, 3635,
    299, 5354, 5012, 5141, 9008, 145, 2786, 5210, 8897, 1162, 2988, 1444,
    5073, 9258, 9355, 5463, 5346, 3182, 7593, 2987, 8673, 1222, 2658, 2733,
    567, 7140, 6978, 3089, 8665, 9132, 784, 8749, 9660, 4511, 95, 91, 9405,
    273, 8104, 7836, 9772, 8647, 5204, 6915, 9872, 9803, 2100, 8952, 299,
    1905, 5621, 3363, 954, 5097, 7116, 1884, 8291, 1027, 2584, 6049, 7432,
    4241, 6810, 9085, 816, 3375, 8448, 3994, 5766, 4323, 2271, 8817, 5431,
    5751, 1288, 4390, 7438, 1798, 9589, 2220, 7338, 2234, 3748, 3741, 4093,
    7777, 5860, 2764, 1851, 1723, 8406, 3788, 4523, 5546, 1929, 9388, 6225,
    3906, 594, 8635, 360, 1626, 4342, 5654, 1389, 6575, 3892, 5613, 4260,
    3002, 9697, 1291, 3491, 5983, 4660, 9846, 3119, 1594, 9249, 9723, 14,
    343, 1044, 5551, 1019, 6510, 8854, 7213, 2080, 1533, 9459, 8383, 5711,
    6410, 5258, 5562, 6042, 2435, 2257, 4071, 1347, 479, 5627, 8933, 7762,
    9597, 9959, 2172, 8608, 7768, 4837, 4729, 6237, 4793, 380, 6440, 128,
    6316, 2563, 1718, 732, 1441, 6868, 6221, 4007, 7096, 4128, 3106, 3897,
    9995, 8047, 3486, 1820, 1437, 8969, 130, 5993, 7047, 566, 3292, 1484,
    733, 6363, 9490, 7972, 3144, 3738, 913, 8268, 7401, 4511, 1315, 9363,
    7155, 2710, 8599, 1141, 2081, 4013, 349, 9167, 2671, 6452, 6932, 7785,
    9068, 2026, 6912, 533, 5949, 6451, 1443, 3782, 8700, 1012, 2144, 202,
    3215, 2371, 672, 6960, 2860, 6804, 7968, 3272, 1416, 1810, 3838, 9386,
    2233, 1965, 4480, 2476, 3543, 4090, 7226>>

\* Math.cos(seededRandom(seed) * Math.PI * 2) * 10^4 for the same seeds
PoleCosTable ==
  <<9449, 8206, -5372, 3523, 9980, 9129, -8987, 9808, 8814, -8148, -9789,
    -9796, -8130, -9227, 1292, 3628, -9653, 4710, 8598, 2870, 1286, 9481,
    -9437, 6376, 2239, 9431, 9603, -5582, -3771, -829, -6938, -3407, 8157,
    4255, -4292, 5483, -393, 7032, -9971, 4454, -9728, 7853, 5387, -2366,
    -9076, -9508, -9807, 7175, 260, -6923, -5265, 6855, 7326, 9989, 9256,
    -9562, -2861, -7016, -791, 6822, 10000, 2014, -2592, -8735, 3975, 8084,
    9624, -2311, -3172, -8519, -9, 2476, -8820, 6533, -9867, 1848, 542,
    9659, -7730, 5029, -9988, 2311, 6630, -9473, 3167, 9420, -9616, -5048,
    2031, 1807, -9687, -5853, 7542, -2860, -4941, 4863, 9934, 9875, -8293,
    5905, -2045, -9920, -3413, -506, 9595, -8495, -5502, -4149, -9933, 79,
    -9586, -3575, 9546, 5233, -9429, -8979, 5467, -3801, 6835, 9903, -1166,
    9929, 2294, 1778, -1447, 7104, -4708, 9798, -9814, -2516, -8962, -5815,
    -9798, -8742, 9995, -7599, 7698, 8982, -7300, 7079, -8564, 5462, -6298,
    -5555, -3368, -4835, -6002, 9294, 9738, -5643, -3229, 3919, -8613,
    6301, -9558, -6007, 9658, -9998, 4458, 1125, 7627, 2626, 750, -9660,
    4704, -4375, -9990, -1743, 4082, 9309, -8228, -6668, 9633, 9919, 9601,
    2436, 4705, 1355, 4135, -6543, 9824, -9753, -10000, -9960, 8121, 9958,
    -1789, -9913, 7694, 7448, -3024, 6156, -9989, 8935, 9190, -9578, -9764,
    -4160, 584, -3013, 6721, 7194, -991, -1461, 9370, -2237, -3221, -3621,
    6687, 8552, 8811, 7068, 9774, -9532, 9982, 9984, 9310, 9853, 3709,
    2101, 9898, 6603, -9918, -3588, 9968, 9924, 2484, 7912, 9823, 3647,
    -9248, -5166, 8254, -9981, -2388, 3774, 4771, 7986, -530, -7902, -426,
    -8885, -4197, 8395, 8714, -5228, 5611, -8069, -8862, -9111, 1431, 7363,
    -9635, -8907, 6897, -9275, -389, 4265, 9669, 1750, -1013, 1658, -7065,
    -7031, -8422, 1733, -8574, -1653, 3961, 4688, 5395, -7240, -9554,
    -9417, 3510, 9271, -7177, -7732, 9311, 6542, 9745, 5215, -9158, -9166,
    6425, -5486, -7676, -9266, -8940, -3102, 9820, 6885, -5835, -8150,
    -9773, 9953, -3795, 5388, 8908, 9849, 10000, 9769, 7923, -9405, 8016,
    -5827, 7521, -1792, 2603, 5706, 9429, 5273, -9017, -6324, -9869, -9381,
    -7930, 406, 1517, -8346, 6626, 9549, -9233, 7838, 1644, 9682, 9997,
    2043, 6413, 1681, -9948, -9856, -7126, -9916, 9715, -6178, 9967, -6771,
    -401, 4716, 8960, 6171, -3865, -7199, -8120, -2508, -8538, -3719,
    -7697, 10000, 3372, -5810, 4142, 6191, 7976, 9967, -8115, -2805, 9374,
    -4778, 5955, 8957, -6548, 9492, 2927, -3941, -7018, 8397, 4642, -616,
    -9532, 6774, 9211, -2148, -1316, 6370, 7538, 2600, -8140, 9760, 8663,
    -1075, -6119, -3492, 1782, 8335, 2931, -3606, 9444, -8272, -6120, 6161,
    -7214, 6846, 8042, 2214, 9919, -4344, 808, 9120, -3327, -2244, -4230,
    2901, -4666, 6293, 4199, -7455, 9266, 1667, 3297, -9472, 149, -6099,
    -8413, -1711>>

\* Math.sin(seededRandom(seed) * Math.PI * 2) * 10^4 for the same seeds
PoleSinTable ==
  <<-3272, 5715, -8434, -9359, 625, 4082, 4386, -1948, -4724, 5798, -2043,
    2012, 5822, 3856, 9916, 9319, -2612, 8821, 5106, -9579, -9917, 3181,
    3308, -7704, 9746, -3324, 2790, 8297, 9262, 9966, -7201, 9402, 5785,
    9050, 9032, 8363, 9992, 7110, -761, -8953, -2316, 6191, 8425, -9716,
    4198, 3098, -1955, 6965, 9997, -7216, -8502, -7281, 6807, 472, -3785,
    2927, 9582, -7126, -9969, 7311, -41, -9795, -9658, 4869, -9176, 5887,
    -2716, -9729, 9483, -5237, 10000, 9689, 4713, 7571, 1624, -9828, -9985,
    -2591, 6344, -8643, -488, -9729, -7486, -3204, 9485, 3357, 2743, -8632,
    9792, -9835, -2483, 8108, -6567, 9582, -8694, -8738, 1145, 1577, 5588,
    8070, -9789, -1260, 9399, 9987, 2816, 5276, 8350, 9099, 1157, -10000,
    -2847, -9339, -2978, -8521, -3330, 4402, -8373, 9250, 7300, -1392,
    -9932, -1186, -9733, 9841, 9895, 7038, -8822, 2000, 1922, -9678, -4437,
    -8135, 1999, -4855, -331, 6500, 6383, -4397, 6835, -7063, 5163, -8376,
    7768, 8315, -9416, 8753, -7998, -3691, 2274, 8256, -9464, 9200, -5082,
    -7765, -2942, 7995, 2592, -219, -8952, -9936, -6468, 9649, 9972, -2587,
    8824, 8992, 445, 9847, 9129, -3652, -5684, -7453, -2684, 1270, -2797,
    9699, 8824, -9908, 9105, 7563, 1868, -2210, -80, -889, -5835, 910,
    9839, -1318, -6388, 6672, 9532, 7881, -459, -4491, -3942, -2874, -2160,
    9094, -9983, 9535, -7405, 6946, 9951, 9893, 3493, -9746, -9467, 9321,
    -7435, -5182, 4730, -7074, -2114, 3024, 599, 572, -3650, 1710, -9287,
    -9777, -1427, -7510, -1281, -9334, -798, -1228, 9687, -6116, 1874,
    9311, -3805, 8562, 5646, -615, -9711, 9260, -8788, 6019, 9986, -6128,
    -9991, 4588, -9077, -5433, 4906, 8524, -8277, 5907, -4633, 4121, 9897,
    -6766, -2678, -4546, 7241, 3738, -9992, 9045, -2552, 9846, -9949, 9862,
    7077, 7110, 5392, -9849, -5146, 9862, 9182, 8833, -8420, 6898, 2952,
    -3365, 9364, -3749, -6963, 6342, 3649, -7563, 2244, 8533, 4016, -3998,
    7663, -8361, 6409, -3761, 4480, 9507, -1891, 7252, 8121, -5794, 2117,
    -966, 9252, 8425, -4544, -1729, 93, 2139, 6101, -3397, 5979, -8127,
    -6590, -9838, 9655, 8212, -3331, -8497, -4324, -7746, -1615, -3463,
    -6093, 9992, 9884, 5509, 7490, 2969, -3842, -6210, -9864, -2502, -256,
    9789, -7673, -9858, 1017, 1693, -7015, 1292, 2370, -7863, 807, -7359,
    9992, 8818, 4440, 7869, -9223, -6941, 5837, -9680, 5205, 9283, 6384,
    -31, -9414, 8139, 9102, 7853, -6031, 817, -5843, -9598, 3483, 8785,
    8033, 4447, -7558, -3146, -9562, 9191, 7124, 5431, -8858, -9981, 3024,
    7356, -3893, -9767, 9913, -7708, 6571, 9656, 5808, 2178, -4995, 9942,
    -7909, -9371, -9840, -5525, 9561, -9327, 3288, -5619, -7909, 7877,
    6925, -7289, 5943, 9752, 1268, 9007, 9967, 4102, -9430, 9745, -9061,
    -9570, 8845, 7771, 9076, 6665, -3760, 9860, 9441, 3208, 9999, 7925,
    5406, -9853>>

\* Math.random() is the generator the schematic engine draws from; its
\* next value is state outside addBambooPlants, which never reads it
MathRandomValues == {0, 2500}

seededRandomUnseeded(seed) ==
  (SeededRandomTable[seed - FirstSeed + 1] + mathRandom) % 10000

seededRandom(seed) == SeededRandomTable[seed - FirstSeed + 1]

PoleCos(seed) == PoleCosTable[seed - FirstSeed + 1]
PoleSin(seed) == PoleSinTable[seed - FirstSeed + 1]

\* Math.floor(Math.sqrt(n)) and Math.ceil(Math.sqrt(n))
FloorSqrt(n) == CHOOSE r \in 0..n : r * r <= n /\ (r + 1) * (r + 1) > n
CeilSqrt(n) == CHOOSE r \in 0..n : r * r >= n /\ (r = 0 \/ (r - 1) * (r - 1) < n)

spacingMeters == 8
clumpSpacing == 80000
maxPolesDrawn == 12

\* Math.abs(plot.latitude * 1000 + plot.longitude * 1000)
plotSeed(plot) == Abs(plot.latitude + plot.longitude)

\* Math.min(totalClumps, Math.round(plot.areaHectares * 150))
visibleClumps(plot) ==
  LET clumpsPerRow == FloorSqrt(plot.areaHectares) \div spacingMeters
      totalClumps == clumpsPerRow * clumpsPerRow
  IN  Min(totalClumps, (plot.areaHectares * 150 + 5000) \div 10000)

\* Mutant of GeoPole: the pole's seed taken from the year as well
GeoPoleByYear(clumpSeed, offsetX, offsetZ, p, year) ==
  LET poleSeed == clumpSeed + ((p + year) % 12) * 10
      isCenter == seededRandom(poleSeed) < 3000
      poleRadius == IF isCenter THEN (seededRandom(poleSeed + 1) * 4) \div 10
                                ELSE 5000 + seededRandom(poleSeed + 1)
      poleOffsetX == (PoleCos(poleSeed + 2) * poleRadius) \div 10000
      poleOffsetZ == (PoleSin(poleSeed + 2) * poleRadius) \div 10000
      heightVariation == 7000 + seededRandom(poleSeed + 3) \div 2
      thicknessRandom == seededRandom(poleSeed + 4)
  IN  [seed |-> poleSeed,
       x |-> offsetX + poleOffsetX,
       z |-> offsetZ + poleOffsetZ,
       height |-> MulDiv(baseHeight(year), heightVariation, 10000),
       thickness |-> 600 + (thicknessRandom * 8) \div 100
                         + (geoProgress(year) * 600) \div 11]

\* One pole of the inner loop, p = 0 .. polesInThisClump - 1
GeoPole(clumpSeed, offsetX, offsetZ, p, year) ==
  LET poleSeed == clumpSeed + p * 10
      isCenter == seededRandom(poleSeed) < 3000
      poleRadius == IF isCenter THEN (seededRandom(poleSeed + 1) * 4) \div 10
                                ELSE 5000 + seededRandom(poleSeed + 1)
      poleOffsetX == (PoleCos(poleSeed + 2) * poleRadius) \div 10000
      poleOffsetZ == (PoleSin(poleSeed + 2) * poleRadius) \div 10000
      heightVariation == 7000 + seededRandom(poleSeed + 3) \div 2
      thicknessRandom == seededRandom(poleSeed + 4)
  IN  [seed |-> poleSeed,
       x |-> offsetX + poleOffsetX,
       z |-> offsetZ + poleOffsetZ,
       height |-> MulDiv(baseHeight(year), heightVariation, 10000),
       thickness |-> 600 + (thicknessRandom * 8) \div 100
                         + (geoProgress(year) * 600) \div 11]

\* One clump of the outer loop, i = 0 .. visibleClumps - 1
GeoClump(plot, i, year) ==
  LET visibleGridSize == CeilSqrt(visibleClumps(plot))
      gridOffset == ((visibleGridSize - 1) * clumpSpacing) \div 2
      row == i \div visibleGridSize
      col == i % visibleGridSize
      clumpSeed == plotSeed(plot) + i * 100
      jitterX == (seededRandom(clumpSeed) - 5000) * 2
      jitterZ == (seededRandom(clumpSeed + 1) - 5000) * 2
      offsetX == col * clumpSpacing - gridOffset + jitterX
      offsetZ == row * clumpSpacing - gridOffset + jitterZ
      polesInThisClump == Min(poleCountPerClump(year), maxPolesDrawn)
  IN  [seed |-> clumpSeed, x |-> offsetX, z |-> offsetZ,
       poles |-> [p \in 1..polesInThisClump |->
                    GeoPole(clumpSeed, offsetX, offsetZ, p - 1, year)]]

\* The mounds and poles addBambooPlants adds to the viewer, in order
addBambooPlants(plot, year) ==
  [i \in 1..visibleClumps(plot) |-> GeoClump(plot, i - 1, year)]

(***************************************************************************)
(* Math.random(): the values the model lets each call site draw            *)
(***************************************************************************)
BucketDraws == {0, 500}       \* Math.random() < 0.3 ? interior : outer ring
RadiusDraws == {0, 300}       \* radius within the bucket
AngleDraws == {0}             \* Math.random() * 2 pi, in quarter turns
ThicknessDraws == {500}
RadiusBottomDraws == {500}    \* 1.1 + Math.random() * 0.2
HeightDraws == {0}            \* 30 + Math.random() * 25
GrowthFactorDraws == {0}      \* 1.2 + Math.random() * 0.4

Cos4(q) == CASE q = 0 -> 1 [] q = 1 -> 0 [] q = 2 -> -1 [] q = 3 -> 0
Sin4(q) == CASE q = 0 -> 0 [] q = 1 -> 1 [] q = 2 -> 0 [] q = 3 -> -1

\* One pass of the candidate draw in the while loop of addNewPoles
Candidate(b, r, q, t) ==
  LET radius == IF b < 300 THEN (r * 6000) \div 1000
                           ELSE 8000 + (r * 10000) \div 1000
      thickness == IF radius < 6000 THEN 600 + (t * 400) \div 1000
                                    ELSE 1200 + (t * 600) \div 1000
  IN  [x |-> Cos4(q) * radius, z |-> Sin4(q) * radius, thickness |-> thickness]

Candidates ==
  {Candidate(b, r, q, t) : b \in BucketDraws, r \in RadiusDraws,
                           q \in AngleDraws, t \in ThicknessDraws}

(***************************************************************************)
(* BambooClump                                                             *)
(***************************************************************************)
maxAttempts == 100

\* radius: pole.mesh.geometry.parameters.radiusBottom * 1.2 of a live pole
existingPositions(poles) ==
  LET live == SelectSeq(poles, LAMBDA pole : ~pole.isHarvested)
  IN  [i \in 1..Len(live) |->
         [x |-> live[i].x, z |-> live[i].z,
          radius |-> (live[i].radiusBottom * 12) \div 10]]

\* distance < (thickness + pos.radius) for some pos: the candidate is rejected
Overlaps(cand, positions) ==
  \E i \in 1..Len(positions) :
    LET dx == cand.x - positions[i].x
        dz == cand.z - positions[i].z
        reach == cand.thickness + positions[i].radius
    IN  dx * dx + dz * dz < reach * reach

\* The BambooPole pushed for an accepted candidate.  createdAt is not a field
\* of the code: it keeps the growthProgress the clump had when the pole was
\* pushed, so that the time a pole has existed can be told from ageInYears.
NewPole(cand, rb, h, g) ==
  [x |-> cand.x, z |-> cand.z, thickness |-> cand.thickness,
   radiusBottom |-> (cand.thickness * (1100 + (rb * 200) \div 1000)) \div 1000,
   targetHeight |-> 300000 + (h * 250000) \div 1000,
   growthFactor |-> 1200 + (g * 400) \div 1000,
   currentHeight |-> 5000, scaleY |-> 100,
   ageInYears |-> 0, isHarvested |-> FALSE, createdAt |-> 0]

\* One iteration of "for (let i = 0; i < count; i++)".  attemptsCounter is
\* declared outside the for loop and only read in the test
\* attemptsCounter < maxAttempts; st.budget is the value of that test.  A
\* while loop entered with budget left draws candidates until one is accepted
\* or the counter reaches maxAttempts: it can run out only on rejected draws,
\* which need a candidate that overlaps.
StalkStep(st) ==
  LET valid == {c \in Candidates : ~Overlaps(c, st.positions)}
      canReject == valid # Candidates
      placed(c, left) ==
        {[positions |-> Append(st.positions,
                         [x |-> c.x, z |-> c.z,
                          radius |-> (c.thickness * 12) \div 10]),
          added |-> Append(st.added, NewPole(c, rb, h, g)),
          skipped |-> st.skipped,
          budget |-> left] :
            rb \in RadiusBottomDraws, h \in HeightDraws,
            g \in GrowthFactorDraws}
      skip == [st EXCEPT !.skipped = @ + 1, !.budget = FALSE]
  IN  IF ~st.budget
        THEN {skip}
        ELSE UNION {placed(c, TRUE) : c \in valid}
             \cup (IF canReject
                     THEN UNION {placed(c, FALSE) : c \in valid} \cup {skip}
                     ELSE {})

\* The for loop over the n stalks still requested.  Once attemptsCounter has
\* reached maxAttempts no while loop is entered again: each stalk left is
\* skipped.
RECURSIVE PlaceStalks(_, _)
PlaceStalks(states, n) ==
  IF n = 0 THEN states
  ELSE IF \A st \in states : ~st.budget
    THEN {[st EXCEPT !.skipped = @ + n] : st \in states}
    ELSE PlaceStalks(UNION {StalkStep(st) : st \in states}, n - 1)

\* Mutant of addNewPoles: the harvested poles dropped from this.poles, as
\* they are from existingPositions, before the new ones are pushed
addNewPolesCompacting(c, count) ==
  LET start == [positions |-> existingPositions(c.poles), added |-> <<>>,
                skipped |-> 0, budget |-> maxAttempts > 0]
      live == SelectSeq(c.poles, LAMBDA pole : ~pole.isHarvested)
  IN  {[c EXCEPT !.poles = live \o st.added, !.currentPoles = @ + count] :
         st \in PlaceStalks({start}, count)}

\* The clumps addNewPoles(count) can leave; this.currentPoles += count
\* whether or not every stalk was placed
addNewPoles(c, count) ==
  LET start == [positions |-> existingPositions(c.poles), added |-> <<>>,
                skipped |-> 0, budget |-> maxAttempts > 0]
      pushed(added) ==
        [i \in 1..Len(added) |->
           [added[i] EXCEPT !.createdAt = c.growthProgress]]
  IN  {[c EXCEPT !.poles = @ \o pushed(st.added),
                 !.currentPoles = @ + count] :
         st \in PlaceStalks({start}, count)}

\* Array.prototype.sort((a, b) => b.ageInYears - a.ageInYears) is stable: the
\* indices of `idx` by descending age, ties in their order in this.poles
RECURSIVE SortByAgeDesc(_, _)
SortByAgeDesc(poles, idx) ==
  IF idx = {} THEN <<>>
  ELSE LET first == CHOOSE i \in idx :
                      \A j \in idx :
                        \/ poles[i].ageInYears > poles[j].ageInYears
                        \/ /\ poles[i].ageInYears = poles[j].ageInYears
                           /\ i <= j
       IN  <<first>> \o SortByAgeDesc(poles, idx \ {first})

\* Mutant of Eligible: the filter without "&& !pole.isHarvested"
EligibleAgain(c) ==
  {i \in 1..Len(c.poles) : c.poles[i].ageInYears >= 30}

\* The mature poles harvestMaturePoles filters
Eligible(c) ==
  {i \in 1..Len(c.poles) :
     c.poles[i].ageInYears >= 30 /\ ~c.poles[i].isHarvested}

\* Mutant of polesToHarvest: Math.floor for Math.ceil
polesToHarvestFloor(n) == (n * 2) \div 10

\* Math.ceil(maturePoles.length * 0.2)
polesToHarvest(n) == CeilDiv(n * 2, 10)

harvestMaturePoles(c, growthProgress) ==
  LET mature == Eligible(c)
      n == polesToHarvest(Cardinality(mature))
      sorted == SortByAgeDesc(c.poles, mature)
      cut == {sorted[i] : i \in 1..Min(n, Len(sorted))}
  IN  IF growthProgress < 30 \/ n = 0
        THEN c
        ELSE [c EXCEPT
                !.poles = [i \in 1..Len(c.poles) |->
                             IF i \in cut
                               THEN [c.poles[i] EXCEPT !.isHarvested = TRUE]
                               ELSE c.poles[i]],
                !.harvestedPoles = @ + Cardinality(cut)]

\* pole.mesh.scale.y of a live pole
ScaleY(targetHeight, growthFactor) ==
  LET individualGrowth == ((targetHeight - 5000) * growthFactor) \div 40000
  IN  Min(9900, Max(100, (individualGrowth * 99) \div 100 + 100))

\* Mutant of GrowPole: a pole of a clump wound back to progress 0 regrows
GrowPoleRegrow(pole, growthProgress, targetHeight) ==
  [pole EXCEPT !.ageInYears = growthProgress,
               !.isHarvested = pole.isHarvested /\ growthProgress > 0]

\* Mutant of GrowPole: without "if (pole.isHarvested) return"
GrowPoleHarvested(pole, growthProgress, targetHeight) ==
  LET scaleY == ScaleY(targetHeight, pole.growthFactor)
  IN  [pole EXCEPT !.ageInYears = growthProgress,
                   !.scaleY = scaleY,
                   !.currentHeight = MulDiv(pole.targetHeight, scaleY, 10000)]

\* The body of this.poles.forEach in update
GrowPole(pole, growthProgress, targetHeight) ==
  LET aged == [pole EXCEPT !.ageInYears = growthProgress]
      scaleY == ScaleY(targetHeight, pole.growthFactor)
  IN  IF pole.isHarvested
        THEN aged
        ELSE [aged EXCEPT !.scaleY = scaleY,
                          !.currentHeight = MulDiv(pole.targetHeight, scaleY, 10000)]

\* BambooClump.update(growthProgress) with harvestDraw the truth of
\* Math.random() < 0.02: the set of results it can yield, each the clump
\* left, the metrics returned and a note of the draw and the harvest pass
update(c, progress, harvestDraw) ==
  LET gp == Max(0, Min(100, progress))
      th == calculateHeight(gp)
      targetPoles == calculatePoleCount(gp)
      c1 == [c EXCEPT !.growthProgress = gp, !.targetHeight = th]
      grown == IF targetPoles > c1.currentPoles
                 THEN addNewPoles(c1, targetPoles - c1.currentPoles)
                 ELSE {c1}
      ran == harvestDraw /\ gp > 50
      cutAt(c2) == IF ran THEN harvestMaturePoles(c2, gp) ELSE c2
      age(c3) == [c3 EXCEPT !.poles = [i \in 1..Len(c3.poles) |->
                                          GrowPole(c3.poles[i], gp, th)]]
      metrics(c4) ==
        LET finalHeight == Max(5000, c4.targetHeight)
            finalPoleCount == Max(5, c4.currentPoles - c4.harvestedPoles)
        IN  [height |-> finalHeight, poleCount |-> finalPoleCount,
             carbon |-> Max(0, calculateCarbon(finalHeight, finalPoleCount))]
  IN  {[clump |-> age(cutAt(c2)),
        ret |-> metrics(age(cutAt(c2))),
        log |-> [ran |-> ran, draw |-> harvestDraw,
                 eligible |-> IF ran THEN Cardinality(Eligible(c2)) ELSE 0]] :
         c2 \in grown}

\* new BambooClump(position): field initialisers, then addNewPoles(5)
NewClumps ==
  addNewPoles([poles |-> <<>>, currentPoles |-> 0, harvestedPoles |-> 0,
               targetHeight |-> 5000, growthProgress |-> 0], 5)

NoMetrics == [height |-> 5000, poleCount |-> 5, carbon |-> 0]

ProgressInputs == {-10, 0, 30, 60, 100, 110}

(***************************************************************************)
(* Spec: one clump under any sequence of update calls                      *)
(***************************************************************************)
NoLog == [ran |-> FALSE, draw |-> FALSE, eligible |-> 0]

CurveIdle == curveIn = [engine |-> "none", a |-> 0, b |-> 0] /\ curveOut = <<>>

NoInterval == [active |-> FALSE, isAnimating |-> FALSE]

DriverIdle ==
  /\ autoPlay = FALSE
  /\ simulationRef = FALSE
  /\ isAnimating = FALSE
  /\ currentTimeValue = 0
  /\ time = 0
  /\ animationFrame = FALSE
  /\ keepAlive = NoInterval
  /\ engineProgress = 0
  /\ lastOp = "none"
  /\ requested = "none"

NoPlot == [latitude |-> 0, longitude |-> 0, areaHectares |-> 0]

\* A view whose year effect has not run yet
NoView(plot) ==
  [drawn |-> FALSE, plot |-> plot, year |-> 0, random |-> 0, entities |-> <<>>]

GeoIdle ==
  /\ viewerA = NoView(NoPlot)
  /\ viewerB = NoView(NoPlot)
  /\ mathRandom = 0

NoClump == [poles |-> <<>>, currentPoles |-> 0, harvestedPoles |-> 0,
            targetHeight |-> 5000, growthProgress |-> 0]

ClumpIdle ==
  /\ clumpA = NoClump
  /\ clumpB = NoClump
  /\ retA = NoMetrics
  /\ retB = NoMetrics
  /\ harvestLog = NoLog
  /\ calls = 0

\* No call of addNewPoles is being followed step by step
NoPlacing ==
  [pc |-> "idle", count |-> 0, i |-> 0, attemptsCounter |-> 0,
   validPosition |-> FALSE, candidate |-> [x |-> 0, z |-> 0, thickness |-> 0],
   positions |-> <<>>, pushed |-> 0, skipped |-> 0]

PlaceIdle == placing = NoPlacing

\* No component
LifeIdle ==
  /\ mounted = FALSE
  /\ webglError = FALSE
  /\ sims = <<>>
  /\ constructError = "none"
  /\ resizeListener = FALSE
  /\ raised = FALSE

\* FloatingDataCards not rendered
NoCards == [ran |-> FALSE, areaHectares |-> 0, year |-> 0,
            carbonIncome |-> 0, harvestIncome |-> 0]

\* calculateCarbon not called
NoCarbonCall == [ran |-> FALSE, height |-> 0, poleCount |-> 0, carbon |-> 0]

\* Nothing drawn in a CesiumPlotTerrain viewer
NoDraw == [year |-> 0, showLidar |-> FALSE]

\* No CesiumPlotTerrain
NoTerrain == [mounted |-> FALSE, script |-> "absent", viewer |-> FALSE,
              isLoading |-> FALSE, error |-> FALSE, year |-> 0,
              showLidar |-> FALSE, drawn |-> NoDraw]

\* No CesiumLandscape
NoLandscape == [mounted |-> FALSE, cesiumToken |-> 0, error |-> FALSE,
                cleanup |-> FALSE, pending |-> 0, viewerRef |-> 0,
                viewers |-> <<>>, changes |-> 0]

\* No FarmerPlotView
NoPage == [pc |-> "none", overlay |-> FALSE, simulation |-> FALSE,
           year |-> 0, newYear |-> 0, depth |-> 0, outcome |-> "none"]

UiIdle ==
  /\ cards = NoCards
  /\ carbonCall = NoCarbonCall
  /\ terrain = NoTerrain
  /\ landscape = NoLandscape
  /\ page = NoPage

Init ==
  /\ clumpA \in NewClumps
  /\ retA = NoMetrics
  /\ clumpB = clumpA
  /\ retB = NoMetrics
  /\ harvestLog = NoLog
  /\ calls = 0
  /\ CurveIdle
  /\ DriverIdle
  /\ GeoIdle
  /\ PlaceIdle
  /\ LifeIdle
  /\ UiIdle

Update ==
  /\ \E p \in ProgressInputs, harvestDraw \in BOOLEAN :
       \E out \in update(clumpA, p, harvestDraw) :
         /\ clumpA' = out.clump
         /\ retA' = out.ret
         /\ harvestLog' = out.log
  /\ UNCHANGED <<clumpB, retB, calls, curveVars, driverVars, geoVars, placeVars, lifeVars,
                 uiVars>>

Next == Update

vars == <<clumpVars, curveVars, driverVars, geoVars, placeVars, lifeVars,
          uiVars>>

Spec == Init /\ [][Next]_vars

(***************************************************************************)
(* SpecPair: two independent clumps driven by the same update calls        *)
(***************************************************************************)
MaxPairCalls == 2

PairProgressInputs == {0, 60, 100}

InitPair ==
  /\ clumpA \in NewClumps
  /\ clumpB \in NewClumps
  /\ retA = NoMetrics
  /\ retB = NoMetrics
  /\ harvestLog = NoLog
  /\ calls = 0
  /\ CurveIdle
  /\ DriverIdle
  /\ GeoIdle
  /\ PlaceIdle
  /\ LifeIdle
  /\ UiIdle

UpdatePair ==
  /\ calls < MaxPairCalls
  /\ \E p \in PairProgressInputs, drawA \in BOOLEAN, drawB \in BOOLEAN :
       \E outA \in update(clumpA, p, drawA), outB \in update(clumpB, p, drawB) :
         /\ clumpA' = outA.clump
         /\ retA' = outA.ret
         /\ harvestLog' = outA.log
         /\ clumpB' = outB.clump
         /\ retB' = outB.ret
  /\ calls' = calls + 1
  /\ UNCHANGED <<curveVars, driverVars, geoVars, placeVars, lifeVars, uiVars>>

NextPair == UpdatePair

SpecPair == InitPair /\ [][NextPair]_vars

(***************************************************************************)
(* SpecHarvest: update calls on a clump that has reached its pole target   *)
(* with up to MaxStalks stalks placed around the mound                     *)
(***************************************************************************)
MaxStalks == 11

\* Stalk k of the populated clump: the centre shoot, then canes on four rays
\* of the outer ring, 0.4 apart
PlacedStalk(k) ==
  IF k = 0 THEN Candidate(0, 0, 0, 500)
           ELSE Candidate(500, 400 * ((k - 1) \div 4), (k - 1) % 4, 500)

PopulatedClump(n, gp) ==
  [poles |-> [k \in 1..n |->
                GrowPole(NewPole(PlacedStalk(k - 1), 500, 0, 0), gp,
                         calculateHeight(gp))],
   currentPoles |-> calculatePoleCount(100), harvestedPoles |-> 0,
   targetHeight |-> calculateHeight(gp), growthProgress |-> gp]

InitHarvest ==
  /\ \E n \in 0..MaxStalks, gp \in {0, 60} :
       clumpA = PopulatedClump(n, gp)
  /\ retA = NoMetrics
  /\ clumpB = clumpA
  /\ retB = NoMetrics
  /\ harvestLog = NoLog
  /\ calls = 0
  /\ CurveIdle
  /\ DriverIdle
  /\ GeoIdle
  /\ PlaceIdle
  /\ LifeIdle
  /\ UiIdle

HarvestProgressInputs == {30, 60, 100}

UpdateMature ==
  /\ \E p \in HarvestProgressInputs, harvestDraw \in BOOLEAN :
       \E out \in update(clumpA, p, harvestDraw) :
         /\ clumpA' = out.clump
         /\ retA' = out.ret
         /\ harvestLog' = out.log
  /\ UNCHANGED <<clumpB, retB, calls, curveVars, driverVars, geoVars, placeVars, lifeVars,
                 uiVars>>

NextHarvest == UpdateMature

SpecHarvest == InitHarvest /\ [][NextHarvest]_vars

(***************************************************************************)
(* SpecGate: update calls with progress on either side of the two          *)
(* thresholds the harvest passes through, 0.5 in update and 0.3 in         *)
(* harvestMaturePoles, on a clump of a few stalks                          *)
(***************************************************************************)
GateStalks == 1..3
GateProgressInputs == {20, 30, 40, 50, 60}

InitGate ==
  /\ \E n \in GateStalks, gp \in {0, 60} : clumpA = PopulatedClump(n, gp)
  /\ retA = NoMetrics
  /\ clumpB = clumpA
  /\ retB = NoMetrics
  /\ harvestLog = NoLog
  /\ calls = 0
  /\ CurveIdle
  /\ DriverIdle
  /\ GeoIdle
  /\ PlaceIdle
  /\ LifeIdle
  /\ UiIdle

UpdateGate ==
  /\ \E p \in GateProgressInputs, harvestDraw \in BOOLEAN :
       \E out \in update(clumpA, p, harvestDraw) :
         /\ clumpA' = out.clump
         /\ retA' = out.ret
         /\ harvestLog' = out.log
  /\ UNCHANGED <<clumpB, retB, calls, curveVars, driverVars, geoVars, placeVars, lifeVars,
                 uiVars>>

NextGate == UpdateGate

SpecGate == InitGate /\ [][NextGate]_vars

(***************************************************************************)
(* SpecSweep: a new clump updated with progress 0, 0.1, ..., 1 in turn;    *)
(* calls counts the ticks made                                             *)
(***************************************************************************)
SweepTicks == 11

InitSweep ==
  /\ clumpA \in NewClumps
  /\ retA = NoMetrics
  /\ clumpB = clumpA
  /\ retB = NoMetrics
  /\ harvestLog = NoLog
  /\ calls = 0
  /\ CurveIdle
  /\ DriverIdle
  /\ GeoIdle
  /\ PlaceIdle
  /\ LifeIdle
  /\ UiIdle

SweepTick ==
  /\ calls < SweepTicks
  /\ \E harvestDraw \in BOOLEAN :
       \E out \in update(clumpA, 10 * calls, harvestDraw) :
         /\ clumpA' = out.clump
         /\ retA' = out.ret
         /\ harvestLog' = out.log
  /\ calls' = calls + 1
  /\ UNCHANGED <<clumpB, retB, curveVars, driverVars, geoVars, placeVars, lifeVars,
                 uiVars>>

NextSweep == SweepTick

SpecSweep == InitSweep /\ [][NextSweep]_vars

(***************************************************************************)
(* SpecPlace: one call of addNewPoles(count) followed statement by         *)
(* statement, on a mound where some or all of the positions the draws can  *)
(* give are already taken.  placing.pc is "for" at the head of the for     *)
(* loop, "while" at the head of the while loop, "done" after the for loop. *)
(***************************************************************************)
PlaceCounts == 0..3

\* The stalks already standing: the first n of the positions a draw can give
Occupied(n) ==
  SubSeq(<<NewPole(Candidate(0, 0, 0, 500), 500, 0, 0),
           NewPole(Candidate(0, 300, 0, 500), 500, 0, 0),
           NewPole(Candidate(500, 0, 0, 500), 500, 0, 0),
           NewPole(Candidate(500, 300, 0, 500), 500, 0, 0)>>, 1, n)

InitPlace ==
  /\ \E count \in PlaceCounts, n \in 0..4 :
       placing = [NoPlacing EXCEPT !.pc = "for", !.count = count,
                                   !.positions = existingPositions(Occupied(n))]
  /\ ClumpIdle
  /\ CurveIdle
  /\ DriverIdle
  /\ GeoIdle
  /\ LifeIdle
  /\ UiIdle

\* Mutant of Increment: attemptsCounter++ lost
IncrementLost(n) == n

\* attemptsCounter++
Increment(n) == n + 1

\* !validPosition && attemptsCounter < maxAttempts
MayRetry(p) == ~p.validPosition /\ p.attemptsCounter < maxAttempts

\* for (let i = 0; i < count; i++) { let validPosition = false; ...
ForStep ==
  /\ placing.pc = "for"
  /\ placing' = IF placing.i < placing.count
                  THEN [placing EXCEPT !.pc = "while",
                                       !.validPosition = FALSE,
                                       !.candidate = NoPlacing.candidate]
                  ELSE [placing EXCEPT !.pc = "done"]
  /\ UNCHANGED <<clumpVars, curveVars, driverVars, geoVars, lifeVars, uiVars>>

\* One pass of the body of the while loop
Attempt ==
  /\ placing.pc = "while"
  /\ MayRetry(placing)
  /\ \E cand \in Candidates :
       placing' = [placing EXCEPT
                     !.attemptsCounter = Increment(@),
                     !.candidate = cand,
                     !.validPosition = ~Overlaps(cand, placing.positions)]
  /\ UNCHANGED <<clumpVars, curveVars, driverVars, geoVars, lifeVars, uiVars>>

\* After the while loop: continue if no valid position was found, else
\* record the position and push the pole
Settle ==
  /\ placing.pc = "while"
  /\ ~MayRetry(placing)
  /\ placing' =
       IF ~placing.validPosition
         THEN [placing EXCEPT !.pc = "for", !.i = @ + 1, !.skipped = @ + 1]
         ELSE [placing EXCEPT
                 !.pc = "for", !.i = @ + 1, !.pushed = @ + 1,
                 !.positions =
                    Append(@, [x |-> placing.candidate.x,
                               z |-> placing.candidate.z,
                               radius |->
                                 (placing.candidate.thickness * 12) \div 10])]
  /\ UNCHANGED <<clumpVars, curveVars, driverVars, geoVars, lifeVars, uiVars>>

NextPlace == ForStep \/ Attempt \/ Settle

\* The call runs on one thread to its end: a step that can be taken is taken
SpecPlace == InitPlace /\ [][NextPlace]_vars /\ WF_vars(NextPlace)

(***************************************************************************)
(* SpecCurve: the growth curves applied to two arguments                   *)
(***************************************************************************)
CurveProgress == -5..105
CurveYears == 2022..2037

InitCurve ==
  /\ \/ curveIn \in [engine : {"schematic"}, a : CurveProgress, b : CurveProgress]
     \/ curveIn \in [engine : {"geo"}, a : CurveYears, b : CurveYears]
  /\ curveOut = <<>>
  /\ ClumpIdle
  /\ DriverIdle
  /\ GeoIdle
  /\ PlaceIdle
  /\ LifeIdle
  /\ UiIdle

\* The schematic engine reaches its curves through update, which clamps
\* growthProgress first; addBambooPlants clamps inside
CurveAt(engine, arg) ==
  IF engine = "schematic"
    THEN LET gp == Max(0, Min(100, arg))
         IN  [height |-> calculateHeight(gp), poles |-> calculatePoleCount(gp),
              progress |-> gp, full |-> 100,
              maxHeight |-> maxHeight, maxPoles |-> maxPoles]
    ELSE [height |-> baseHeight(arg), poles |-> poleCountPerClump(arg),
          progress |-> geoProgress(arg), full |-> 11,
          maxHeight |-> geoMaxHeight, maxPoles |-> geoMaxPoles]

Evaluate ==
  /\ curveOut = <<>>
  /\ curveOut' = <<CurveAt(curveIn.engine, curveIn.a),
                   CurveAt(curveIn.engine, curveIn.b)>>
  /\ UNCHANGED <<curveIn, clumpVars, driverVars, geoVars, placeVars, lifeVars,
                 uiVars>>

NextCurve == Evaluate

SpecCurve == InitCurve /\ [][NextCurve]_vars

(***************************************************************************)
(* SpecDriver: BambooSimulationComponent.  A state update and the effects   *)
(* React runs for it are one step with the handler that made it.  The      *)
(* clump behind simulation.update is the subject of Spec; here the call is *)
(* kept by the progress it passes.                                         *)
(***************************************************************************)
InitialYears == {2025, 2030}
SeekYears == {2024, 2025, 2028, 2030, 2035, 2040}
TickDeltas == {3, 10}

\* if (time >= 10) time = time % 10
WrapTime(t) == IF t >= 100 THEN t % 100 ELSE t

\* A BambooSimulation: renderLoop, its animate has a frame requested;
\* cleaned, cleanup() was called on it, which disposes the geometry and the
\* material of every mesh in its scene and the renderer; late, the frames
\* its animate rendered after that (counted up to MaxLateFrames)
MaxSims == 2
MaxLateFrames == 1

\* new BambooSimulation(container), webgl telling whether THREE.WebGLRenderer
\* can be created: the constructor ends with this.animate()
NewSimulation(webgl) ==
  IF webgl
    THEN [error |-> "none",
          sim |-> <<[renderLoop |-> TRUE, cleaned |-> FALSE, late |-> 0]>>]
    ELSE [error |-> "WEBGL_NOT_AVAILABLE", sim |-> <<>>]

\* BambooSimulation.cleanup() on the simulation simulationRef.current holds,
\* the last one constructed
CleanupCurrent(all) ==
  IF simulationRef /\ Len(all) > 0
    THEN [all EXCEPT ![Len(all)].cleaned = TRUE]
    ELSE all

\* Mutant of updateSimulation: without "if (!simulationRef.current) return"
updateSimulationUnguarded(progress) ==
  /\ engineProgress' = progress
  /\ raised' = (raised \/ ~simulationRef)

\* updateSimulation(progress): nothing without a simulation
updateSimulation(progress) ==
  /\ engineProgress' = IF simulationRef THEN progress ELSE engineProgress
  /\ raised' = raised

\* The effects after a render in which isAnimating changed to `animating`:
\* the animate effect (deps [isAnimating]), then the autoPlay effect (deps
\* [autoPlay, isAnimating]), whose setIsAnimating(true) renders once more.
\* `now` is the currentTimeValue of that render.
RunEffects(animating, now) ==
  IF animating \/ autoPlay
    THEN /\ isAnimating' = TRUE
         /\ time' = now
         /\ animationFrame' = TRUE
         /\ keepAlive' = IF autoPlay
                           THEN [active |-> TRUE, isAnimating |-> TRUE]
                           ELSE NoInterval
    ELSE /\ isAnimating' = FALSE
         /\ time' = time
         /\ animationFrame' = FALSE
         /\ keepAlive' = NoInterval

\* setIsAnimating(value) from a handler
setIsAnimating(value) ==
  IF value = isAnimating
    THEN UNCHANGED <<isAnimating, time, animationFrame, keepAlive>>
    ELSE RunEffects(value, currentTimeValue)

\* Mount: useState initial values, then the three effects in order.
\* simulationRef is set unless the constructor threw, which the init effect
\* catches with setWebglError(true)
InitDriver ==
  /\ autoPlay \in BOOLEAN
  /\ simulationRef \in BOOLEAN
  /\ isAnimating = autoPlay
  /\ \E initialYear \in InitialYears :
       LET initialTimeValue == (initialYear - 2025) * 10
       IN  /\ currentTimeValue = IF simulationRef THEN initialTimeValue ELSE 0
           /\ engineProgress = IF simulationRef THEN initialTimeValue ELSE 0
  /\ time = 0
  /\ animationFrame = autoPlay
  /\ keepAlive = IF autoPlay THEN [active |-> TRUE, isAnimating |-> TRUE]
                             ELSE NoInterval
  /\ lastOp = "mount"
  /\ requested = "none"
  /\ mounted = TRUE
  /\ webglError = ~simulationRef
  /\ sims = NewSimulation(simulationRef).sim
  /\ constructError = NewSimulation(simulationRef).error
  /\ resizeListener = TRUE
  /\ raised = FALSE
  /\ ClumpIdle
  /\ CurveIdle
  /\ GeoIdle
  /\ PlaceIdle
  /\ UiIdle

\* The animate callback of the animate effect
Tick ==
  /\ animationFrame
  /\ \E deltaTime \in TickDeltas :
       /\ time' = WrapTime(time + deltaTime)
       /\ currentTimeValue' = time'
       /\ updateSimulation(time')
  /\ lastOp' = "tick"
  /\ UNCHANGED <<autoPlay, simulationRef, isAnimating, animationFrame,
                 keepAlive, requested, clumpVars, curveVars, geoVars,
                 placeVars, lifeRest, uiVars>>

Play ==
  /\ setIsAnimating(TRUE)
  /\ lastOp' = "play"
  /\ requested' = "play"
  /\ UNCHANGED <<autoPlay, simulationRef, currentTimeValue, engineProgress,
                 clumpVars, curveVars, geoVars, placeVars, lifeVars, uiVars>>

Pause ==
  /\ setIsAnimating(FALSE)
  /\ lastOp' = "pause"
  /\ requested' = "pause"
  /\ UNCHANGED <<autoPlay, simulationRef, currentTimeValue, engineProgress,
                 clumpVars, curveVars, geoVars, placeVars, lifeVars, uiVars>>

\* toggleAnimation: setIsAnimating(prev => !prev)
Toggle ==
  /\ setIsAnimating(~isAnimating)
  /\ lastOp' = "toggle"
  /\ requested' = IF isAnimating THEN "pause" ELSE "play"
  /\ UNCHANGED <<autoPlay, simulationRef, currentTimeValue, engineProgress,
                 clumpVars, curveVars, geoVars, placeVars, lifeVars, uiVars>>

SetYear ==
  /\ \E year \in SeekYears :
       LET timeValue == (year - 2025) * 10
       IN  /\ currentTimeValue' = timeValue
           /\ updateSimulation(timeValue)
  /\ lastOp' = "setYear"
  /\ UNCHANGED <<autoPlay, simulationRef, isAnimating, time, animationFrame,
                 keepAlive, requested, clumpVars, curveVars, geoVars,
                 placeVars, lifeRest, uiVars>>

\* The keepAnimationRunning callback: if (!isAnimating) setIsAnimating(true),
\* on the isAnimating its effect captured
KeepAnimationRunning ==
  /\ keepAlive.active
  /\ IF ~keepAlive.isAnimating
       THEN setIsAnimating(TRUE)
       ELSE UNCHANGED <<isAnimating, time, animationFrame, keepAlive>>
  /\ UNCHANGED <<autoPlay, simulationRef, currentTimeValue, engineProgress,
                 lastOp, requested, clumpVars, curveVars, geoVars, placeVars, lifeVars,
                 uiVars>>

NextDriver ==
  Tick \/ Play \/ Pause \/ Toggle \/ SetYear \/ KeepAnimationRunning

SpecDriver == InitDriver /\ [][NextDriver]_vars

(***************************************************************************)
(* SpecLifecycle: the driver with the life of its BambooSimulation         *)
(* objects: the init effect re-run when initialYear changes, unmounting,   *)
(* window resizes and the frames of each simulation's own render loop      *)
(***************************************************************************)
\* The cleanup the init effect returned, if its last run got that far
InitEffectCleanup ==
  [sims |-> IF resizeListener THEN CleanupCurrent(sims) ELSE sims,
   animationFrame |-> IF resizeListener THEN FALSE ELSE animationFrame]

\* initialYear changes: the cleanup of the init effect, then its body.  With
\* the fallback rendered canvasContainerRef.current is null and the body
\* returns at once.
ChangeInitialYear ==
  /\ mounted
  /\ Len(sims) < MaxSims
  /\ \E initialYear \in InitialYears, webgl \in BOOLEAN :
       LET initialTimeValue == (initialYear - 2025) * 10
           made == NewSimulation(webgl)
       IN  /\ animationFrame' = InitEffectCleanup.animationFrame
           /\ IF webglError
                THEN /\ sims' = InitEffectCleanup.sims
                     /\ resizeListener' = FALSE
                     /\ UNCHANGED <<simulationRef, currentTimeValue,
                                    engineProgress, webglError,
                                    constructError>>
                ELSE /\ sims' = InitEffectCleanup.sims \o made.sim
                     /\ constructError' = made.error
                     /\ resizeListener' = TRUE
                     /\ IF webgl
                          THEN /\ simulationRef' = TRUE
                               /\ currentTimeValue' = initialTimeValue
                               /\ engineProgress' = initialTimeValue
                               /\ UNCHANGED webglError
                          ELSE /\ webglError' = TRUE
                               /\ UNCHANGED <<simulationRef, currentTimeValue,
                                              engineProgress>>
  /\ lastOp' = "initialYear"
  /\ UNCHANGED <<autoPlay, isAnimating, time, keepAlive, requested, mounted,
                 raised, clumpVars, curveVars, geoVars, placeVars, uiVars>>

\* Unmount: the cleanups of the init effect, the animate effect and the
\* autoPlay effect
Unmount ==
  /\ mounted
  /\ mounted' = FALSE
  /\ sims' = InitEffectCleanup.sims
  /\ resizeListener' = FALSE
  /\ animationFrame' = FALSE
  /\ keepAlive' = NoInterval
  /\ lastOp' = "unmount"
  /\ UNCHANGED <<autoPlay, simulationRef, isAnimating, currentTimeValue, time,
                 engineProgress, requested, webglError, constructError, raised,
                 clumpVars, curveVars, geoVars, placeVars, uiVars>>

\* A resize event: handleResize calls simulationRef.current.handleResize()
\* if there is a simulation
Resize ==
  /\ resizeListener
  /\ raised' = raised
  /\ lastOp' = "resize"
  /\ UNCHANGED <<autoPlay, simulationRef, isAnimating, currentTimeValue, time,
                 animationFrame, keepAlive, engineProgress, requested,
                 lifeRest, clumpVars, curveVars, geoVars, placeVars, uiVars>>

\* A frame of BambooSimulation.animate: it requests the next frame, then
\* renders
RenderFrame ==
  /\ \E k \in 1..Len(sims) :
       /\ sims[k].renderLoop
       /\ sims' = [sims EXCEPT ![k].late =
                     IF sims[k].cleaned THEN Min(@ + 1, MaxLateFrames) ELSE @]
  /\ UNCHANGED <<driverVars, mounted, webglError, constructError,
                 resizeListener, raised, clumpVars, curveVars, geoVars,
                 placeVars, uiVars>>

NextLifecycle ==
  \/ mounted /\ Tick
  \/ mounted /\ Play
  \/ mounted /\ Pause
  \/ mounted /\ Toggle
  \/ mounted /\ SetYear
  \/ mounted /\ KeepAnimationRunning
  \/ ChangeInitialYear
  \/ Unmount
  \/ Resize
  \/ RenderFrame

SpecLifecycle == InitDriver /\ [][NextLifecycle]_vars

(***************************************************************************)
(* SpecGeo: two CesiumPlotTerrain views, each redrawn whenever its year    *)
(* changes, while the host's Math.random() generator moves on              *)
(***************************************************************************)
GeoPlots ==
  {[latitude |-> 1000, longitude |-> 2000, areaHectares |-> 400],
   [latitude |-> 1000, longitude |-> 2300, areaHectares |-> 100]}

GeoYears == {2023, 2024, 2026, 2030, 2035, 2036}

InitGeo ==
  /\ viewerA \in {NoView(plot) : plot \in GeoPlots}
  /\ viewerB \in {NoView(plot) : plot \in GeoPlots}
  /\ mathRandom \in MathRandomValues
  /\ ClumpIdle
  /\ CurveIdle
  /\ DriverIdle
  /\ PlaceIdle
  /\ LifeIdle
  /\ UiIdle

\* The effect on [year, plot, showLidar]: viewer.entities.removeAll(), then
\* addBambooPlants(viewer, plot, year)
YearEffect(view, year) ==
  [view EXCEPT !.drawn = TRUE, !.year = year, !.random = mathRandom,
               !.entities = addBambooPlants(view.plot, year)]

RenderA ==
  /\ \E year \in GeoYears : viewerA' = YearEffect(viewerA, year)
  /\ mathRandom' \in MathRandomValues
  /\ UNCHANGED <<viewerB, clumpVars, curveVars, driverVars, placeVars, lifeVars,
                 uiVars>>

RenderB ==
  /\ \E year \in GeoYears : viewerB' = YearEffect(viewerB, year)
  /\ mathRandom' \in MathRandomValues
  /\ UNCHANGED <<viewerA, clumpVars, curveVars, driverVars, placeVars, lifeVars,
                 uiVars>>

NextGeo == RenderA \/ RenderB

SpecGeo == InitGeo /\ [][NextGeo]_vars

(***************************************************************************)
(* SpecCards: the income derivation of FloatingDataCards                   *)
(*                                                                         *)
(* plot.areaHectares is in hundredths of a hectare, a sequestration rate   *)
(* in hundredths of a ton per hectare and year, the carbon income in units *)
(* of 1e-4 dollar and the harvest income in dollars.                       *)
(***************************************************************************)
plantingYear == 2026
harvestStartYear == 5
carbonRatePerHa == 8750
carbonPricePerTon == 30
clumpsPerHa == 150
harvestablePolesPerClumpPerYear == 20
polePrice == 10

\* The rate the README and replit.md give: 8.75 t CO2e/ha/year
documentedCarbonRatePerHa == 875

yearsGrown(year) == Max(0, year - plantingYear)

canHarvest(year) == yearsGrown(year) >= harvestStartYear

\* progress = Math.min(1, yearsGrown / 6), in sixths
cardProgress(year) == Min(6, yearsGrown(year))

\* annualCarbon * carbonPricePerTon, with
\* annualCarbon = plot.areaHectares * carbonRatePerHa * progress
carbonIncome(areaHectares, year) ==
  (areaHectares * carbonRatePerHa * cardProgress(year) * carbonPricePerTon)
    \div 6

\* Math.round(plot.areaHectares * clumpsPerHa): Math.round(x) is
\* floor(x + 0.5)
totalClumps(areaHectares) == (areaHectares * clumpsPerHa + 50) \div 100

harvestIncome(areaHectares, year) ==
  (IF canHarvest(year)
     THEN totalClumps(areaHectares) * harvestablePolesPerClumpPerYear
     ELSE 0) * polePrice

\* The carbon income the documentation describes
documentedCarbonIncome(areaHectares, year) ==
  (areaHectares * documentedCarbonRatePerHa * cardProgress(year)
     * carbonPricePerTon) \div 6

CardAreas == {-250, -100, -1, 0, 1, 50, 100, 333, 1000}
CardYears == 2024..2041

InitCards ==
  /\ \E a \in CardAreas : cards = [NoCards EXCEPT !.areaHectares = a]
  /\ carbonCall = NoCarbonCall
  /\ terrain = NoTerrain
  /\ landscape = NoLandscape
  /\ page = NoPage
  /\ ClumpIdle
  /\ CurveIdle
  /\ DriverIdle
  /\ GeoIdle
  /\ PlaceIdle
  /\ LifeIdle

\* A render of FloatingDataCards with the year prop it is given
RenderCards ==
  /\ \E year \in CardYears :
       cards' = [ran |-> TRUE,
                 areaHectares |-> cards.areaHectares,
                 year |-> year,
                 carbonIncome |-> carbonIncome(cards.areaHectares, year),
                 harvestIncome |-> harvestIncome(cards.areaHectares, year)]
  /\ UNCHANGED <<carbonCall, terrain, landscape, page, clumpVars, curveVars,
                 driverVars, geoVars, placeVars, lifeVars>>

NextCards == RenderCards

SpecCards == InitCards /\ [][NextCards]_vars


(***************************************************************************)
(* SpecCarbon: calculateCarbon, called on its own and by update            *)
(***************************************************************************)
CarbonHeights == {0, 1, 5000, 13500, 25500, 27000}
CarbonPoleCounts == {0, 1, 5, 45, 90, 100}
CarbonProgressInputs == {-10, 0, 20, 30, 40, 60, 100, 110}
MaxCarbonUpdates == 1

InitCarbon ==
  /\ clumpA \in NewClumps
  /\ retA = NoMetrics
  /\ clumpB = clumpA
  /\ retB = NoMetrics
  /\ harvestLog = NoLog
  /\ calls = 0
  /\ cards = NoCards
  /\ carbonCall = NoCarbonCall
  /\ terrain = NoTerrain
  /\ landscape = NoLandscape
  /\ page = NoPage
  /\ CurveIdle
  /\ DriverIdle
  /\ GeoIdle
  /\ PlaceIdle
  /\ LifeIdle

\* calculateCarbon(height, poleCount)
Calculate ==
  /\ \E height \in CarbonHeights, poleCount \in CarbonPoleCounts :
       carbonCall' = [ran |-> TRUE, height |-> height, poleCount |-> poleCount,
                      carbon |-> calculateCarbon(height, poleCount)]
  /\ UNCHANGED <<cards, terrain, landscape, page, clumpVars, curveVars,
                 driverVars, geoVars, placeVars, lifeVars>>

\* clumpA.update(progress), which ends with
\* calculateCarbon(finalHeight, finalPoleCount)
UpdateCarbon ==
  /\ calls < MaxCarbonUpdates
  /\ calls' = calls + 1
  /\ \E p \in CarbonProgressInputs, harvestDraw \in BOOLEAN :
       \E out \in update(clumpA, p, harvestDraw) :
         /\ clumpA' = out.clump
         /\ retA' = out.ret
         /\ harvestLog' = out.log
         /\ carbonCall' =
              [ran |-> TRUE, height |-> out.ret.height,
               poleCount |-> out.ret.poleCount,
               carbon |-> calculateCarbon(out.ret.height, out.ret.poleCount)]
  /\ UNCHANGED <<clumpB, retB, cards, terrain, landscape, page, curveVars,
                 driverVars, geoVars, placeVars, lifeVars>>

NextCarbon == Calculate \/ UpdateCarbon

SpecCarbon == InitCarbon /\ [][NextCarbon]_vars


(***************************************************************************)
(* SpecTerrain: the two effects of CesiumPlotTerrain for one plot, with    *)
(* WebGL supported and a token given.  terrain.script is window.Cesium's   *)
(* state ("loaded" once it is defined), terrain.viewer tells whether       *)
(* viewerRef.current holds a live viewer, terrain.drawn the year and       *)
(* showLidar the entities now in the viewer were drawn for.                *)
(***************************************************************************)
TerrainYears == 2026..2035

\* initCesium past its await, or without one: the viewer is created and
\* setIsLoading(false) renders again with the same props
CreateViewer(t) == [t EXCEPT !.viewer = TRUE, !.isLoading = FALSE]

\* The effect on [year, plot, showLidar]
TerrainYearEffect(t) ==
  IF t.viewer
    THEN [t EXCEPT !.drawn = [year |-> t.year, showLidar |-> t.showLidar]]
    ELSE t

\* After the first commit, with the year the page starts at and showLidar
\* at its default: the init effect, then the year effect.  With
\* window.Cesium defined initCesium runs to its end inside the init effect,
\* otherwise it stops at await loadCesiumScript()
InitTerrain ==
  /\ \E present \in BOOLEAN :
       LET t == [NoTerrain EXCEPT !.mounted = TRUE, !.isLoading = TRUE,
                                  !.year = 2026, !.showLidar = FALSE]
       IN  terrain =
             IF present
               THEN TerrainYearEffect(CreateViewer([t EXCEPT !.script = "loaded"]))
               ELSE TerrainYearEffect([t EXCEPT !.script = "loading"])
  /\ cards = NoCards
  /\ carbonCall = NoCarbonCall
  /\ landscape = NoLandscape
  /\ page = NoPage
  /\ ClumpIdle
  /\ CurveIdle
  /\ DriverIdle
  /\ GeoIdle
  /\ PlaceIdle
  /\ LifeIdle

\* script.onload: initCesium resumes after its await; the render that
\* setIsLoading(false) causes changes no dependency of the year effect
ScriptLoaded ==
  /\ terrain.script = "loading"
  /\ terrain' = IF terrain.mounted
                  THEN CreateViewer([terrain EXCEPT !.script = "loaded"])
                  ELSE [terrain EXCEPT !.script = "loaded"]
  /\ UNCHANGED <<cards, carbonCall, landscape, page, clumpVars, curveVars,
                 driverVars, geoVars, placeVars, lifeVars>>

\* script.onerror: the catch of initCesium
ScriptFailed ==
  /\ terrain.script = "loading"
  /\ terrain' = IF terrain.mounted
                  THEN [terrain EXCEPT !.script = "failed", !.error = TRUE,
                                       !.isLoading = FALSE]
                  ELSE [terrain EXCEPT !.script = "failed"]
  /\ UNCHANGED <<cards, carbonCall, landscape, page, clumpVars, curveVars,
                 driverVars, geoVars, placeVars, lifeVars>>

\* The parent renders the component with another year or showLidar
ChangeTerrainProps ==
  /\ terrain.mounted
  /\ \E year \in TerrainYears, showLidar \in BOOLEAN :
       /\ <<year, showLidar>> # <<terrain.year, terrain.showLidar>>
       /\ terrain' = TerrainYearEffect([terrain EXCEPT !.year = year,
                                                       !.showLidar = showLidar])
  /\ UNCHANGED <<cards, carbonCall, landscape, page, clumpVars, curveVars,
                 driverVars, geoVars, placeVars, lifeVars>>

\* Unmount: the cleanup of the init effect destroys the viewer
UnmountTerrain ==
  /\ terrain.mounted
  /\ terrain' = [terrain EXCEPT !.mounted = FALSE, !.viewer = FALSE,
                                !.drawn = NoDraw]
  /\ UNCHANGED <<cards, carbonCall, landscape, page, clumpVars, curveVars,
                 driverVars, geoVars, placeVars, lifeVars>>

NextTerrain ==
  ScriptLoaded \/ ScriptFailed \/ ChangeTerrainProps \/ UnmountTerrain

\* The script request comes to an end; the props may stay as they are
SpecTerrain ==
  InitTerrain /\ [][NextTerrain]_vars /\ WF_vars(ScriptLoaded \/ ScriptFailed)


(***************************************************************************)
(* SpecLandscape: the initViewer effect of CesiumLandscape, with Cesium    *)
(* loaded.  landscape.cesiumToken is 0 for no token; landscape.error tells  *)
(* whether the error state is set, with which the fallback map is rendered *)
(* in place of the container; landscape.pending                            *)
(* counts the initViewer runs waiting in await fromIonAssetId(1);          *)
(* landscape.viewers has one entry per viewer constructed, TRUE while it   *)
(* is not destroyed; landscape.viewerRef is the index of the viewer        *)
(* viewerRef.current holds, 0 for null; landscape.cleanup tells whether    *)
(* the last run of the effect returned its cleanup function.               *)
(***************************************************************************)
LandscapeTokens == 0..2
MaxTokenChanges == 2

\* containerRef.current is set: the container is rendered
Container(l) == l.mounted /\ ~l.error

\* The script effect, which sets the error when there is no token, then the
\* body of the initViewer effect, after the cleanup of its previous run
InitViewerEffect(l) ==
  IF ~Container(l) \/ l.cesiumToken = 0 \/ l.viewerRef # 0
    THEN [l EXCEPT !.cleanup = FALSE, !.error = @ \/ l.cesiumToken = 0]
    ELSE [l EXCEPT !.cleanup = TRUE, !.pending = @ + 1]

\* The cleanup the effect returned, if it returned one
InitViewerCleanup(l) ==
  IF l.cleanup /\ l.viewerRef # 0
    THEN [l EXCEPT !.viewers[l.viewerRef] = FALSE, !.viewerRef = 0]
    ELSE l

InitLandscape ==
  /\ \E token \in LandscapeTokens :
       landscape = InitViewerEffect([NoLandscape EXCEPT !.mounted = TRUE,
                                                        !.cesiumToken = token])
  /\ cards = NoCards
  /\ carbonCall = NoCarbonCall
  /\ terrain = NoTerrain
  /\ page = NoPage
  /\ ClumpIdle
  /\ CurveIdle
  /\ DriverIdle
  /\ GeoIdle
  /\ PlaceIdle
  /\ LifeIdle

\* An initViewer resumes after its await: new Cesium.Viewer(
\* containerRef.current!, ...) and viewerRef.current = viewer; without a
\* container the constructor throws and the catch sets the error
TerrainProviderSettled ==
  /\ landscape.pending > 0
  /\ landscape' =
       IF Container(landscape)
         THEN [landscape EXCEPT !.pending = @ - 1,
                                !.viewers = Append(@, TRUE),
                                !.viewerRef = Len(landscape.viewers) + 1]
         ELSE [landscape EXCEPT !.pending = @ - 1,
                                !.error = landscape.mounted]
  /\ UNCHANGED <<cards, carbonCall, terrain, page, clumpVars, curveVars,
                 driverVars, geoVars, placeVars, lifeVars>>

\* The cesiumToken prop changes: cleanup of the last run, then the effect
ChangeToken ==
  /\ landscape.mounted
  /\ landscape.changes < MaxTokenChanges
  /\ \E token \in LandscapeTokens \ {landscape.cesiumToken} :
       landscape' =
         InitViewerEffect([InitViewerCleanup(landscape) EXCEPT
                             !.cesiumToken = token, !.changes = @ + 1])
  /\ UNCHANGED <<cards, carbonCall, terrain, page, clumpVars, curveVars,
                 driverVars, geoVars, placeVars, lifeVars>>

\* Unmount: cleanup of the last run
UnmountLandscape ==
  /\ landscape.mounted
  /\ landscape' = [InitViewerCleanup(landscape) EXCEPT !.mounted = FALSE,
                                                       !.cleanup = FALSE]
  /\ UNCHANGED <<cards, carbonCall, terrain, page, clumpVars, curveVars,
                 driverVars, geoVars, placeVars, lifeVars>>

NextLandscape == TerrainProviderSettled \/ ChangeToken \/ UnmountLandscape

SpecLandscape == InitLandscape /\ [][NextLandscape]_vars


(***************************************************************************)
(* SpecPage: FarmerPlotView and the BambooSimulationComponent of its       *)
(* overlay, one call at a time.  page.pc is the function now entered       *)
(* ("idle" between handlers), page.depth the frames on the call stack,     *)
(* page.newYear the argument passed along, page.overlay whether the        *)
(* overlay is mounted (the page's simulationRef.current is its handle),    *)
(* page.simulation whether the component's simulationRef.current is set,   *)
(* page.outcome how the last handler ended.  The call stack holds          *)
(* MaxStack frames; a call beyond them raises RangeError.                  *)
(***************************************************************************)
PageYears == 2026..2030
MaxStack == 9

\* A call of `callee` with argument newYear from the function page.pc
Call(callee, newYear) ==
  IF page.depth < MaxStack
    THEN [page EXCEPT !.pc = callee, !.newYear = newYear, !.depth = @ + 1]
    ELSE [page EXCEPT !.pc = "idle", !.depth = 0, !.outcome = "raised"]

\* The function page.pc returns; every call of the chain is the last
\* statement of its caller, so the whole chain returns
Return == [page EXCEPT !.pc = "idle", !.depth = 0, !.outcome = "returned"]

InitPage ==
  /\ page = [NoPage EXCEPT !.pc = "idle", !.year = 2026]
  /\ cards = NoCards
  /\ carbonCall = NoCarbonCall
  /\ terrain = NoTerrain
  /\ landscape = NoLandscape
  /\ ClumpIdle
  /\ CurveIdle
  /\ DriverIdle
  /\ GeoIdle
  /\ PlaceIdle
  /\ LifeIdle

\* The year slider of FloatingDataCards: onYearChange(v)
SliderChange ==
  /\ page.pc = "idle"
  /\ \E v \in PageYears :
       page' = [page EXCEPT !.pc = "handleYearChange", !.newYear = v,
                            !.depth = 1, !.outcome = "none"]
  /\ UNCHANGED <<cards, carbonCall, terrain, landscape, clumpVars, curveVars,
                 driverVars, geoVars, placeVars, lifeVars>>

\* setShowBambooSim(true): the overlay mounts with initialYear = year; its
\* init effect constructs the simulation, unless WebGL is missing, and
\* calls updateSimulation(initialTimeValue / 10)
OpenOverlay ==
  /\ page.pc = "idle"
  /\ ~page.overlay
  /\ \E webgl \in BOOLEAN :
       page' = [page EXCEPT !.overlay = TRUE, !.simulation = webgl,
                            !.pc = IF webgl THEN "updateSimulation" ELSE "idle",
                            !.newYear = page.year,
                            !.depth = IF webgl THEN 1 ELSE 0,
                            !.outcome = "none"]
  /\ UNCHANGED <<cards, carbonCall, terrain, landscape, clumpVars, curveVars,
                 driverVars, geoVars, placeVars, lifeVars>>

\* setShowBambooSim(false): the overlay unmounts
CloseOverlay ==
  /\ page.pc = "idle"
  /\ page.overlay
  /\ page' = [page EXCEPT !.overlay = FALSE, !.simulation = FALSE]
  /\ UNCHANGED <<cards, carbonCall, terrain, landscape, clumpVars, curveVars,
                 driverVars, geoVars, placeVars, lifeVars>>

\* handleYearChange(newYear): setYear(newYear), then
\* simulationRef.current.setYear(newYear) if the ref is set
handleYearChange ==
  /\ page.pc = "handleYearChange"
  /\ page' = IF page.overlay
               THEN [Call("setYear", page.newYear) EXCEPT !.year = page.newYear]
               ELSE [Return EXCEPT !.year = page.newYear]
  /\ UNCHANGED <<cards, carbonCall, terrain, landscape, clumpVars, curveVars,
                 driverVars, geoVars, placeVars, lifeVars>>

\* BambooSimulationRef.setYear(year): updateSimulation((year - 2025) / 10)
refSetYear ==
  /\ page.pc = "setYear"
  /\ page' = Call("updateSimulation", page.newYear)
  /\ UNCHANGED <<cards, carbonCall, terrain, landscape, clumpVars, curveVars,
                 driverVars, geoVars, placeVars, lifeVars>>

\* updateSimulation(progress) with onYearChange = handleYearChange: returns
\* without a simulation, else ends with onYearChange(Math.floor(exactYear)),
\* where exactYear = 2025 + progress * 10 is the year progress came from
\* (the rounding error of progress * 10 is lost in the sum with 2025)
pageUpdateSimulation ==
  /\ page.pc = "updateSimulation"
  /\ page' = IF page.simulation
               THEN Call("handleYearChange", page.newYear)
               ELSE Return
  /\ UNCHANGED <<cards, carbonCall, terrain, landscape, clumpVars, curveVars,
                 driverVars, geoVars, placeVars, lifeVars>>

NextPage ==
  \/ SliderChange
  \/ OpenOverlay
  \/ CloseOverlay
  \/ handleYearChange
  \/ refSetYear
  \/ pageUpdateSimulation

\* A handler, once entered, runs on
SpecPage ==
  /\ InitPage
  /\ [][NextPage]_vars
  /\ WF_vars(handleYearChange \/ refSetYear \/ pageUpdateSimulation)


(***************************************************************************)
(* Claims about the geo-referenced layout                                  *)
(***************************************************************************)
\* What the claim compares: the clump positions in order and, per pole,
\* position, height and thickness
GeoLayout(entities) ==
  [i \in 1..Len(entities) |->
     [x |-> entities[i].x, z |-> entities[i].z,
      poles |-> [p \in 1..Len(entities[i].poles) |->
                   [x |-> entities[i].poles[p].x,
                    z |-> entities[i].poles[p].z,
                    height |-> entities[i].poles[p].height,
                    thickness |-> entities[i].poles[p].thickness]]]]

C17_GeoNoOverlap ==
  viewerA.drawn =>
    \A i \in 1..Len(viewerA.entities) :
      LET poles == viewerA.entities[i].poles
      IN  \A p, q \in 1..Len(poles) :
            p < q =>
              LET sum == poles[p].thickness + poles[q].thickness
              IN  Distance2(poles[p], poles[q]) >= sum * sum

C8_PauseFreezes ==
  (simulationRef /\ requested = "pause") => ~isAnimating /\ ~animationFrame

\* C18: the progress a Running tick passes to the engine, time / 10, lies in
\* [0, 1], wherever initialYear or setYear put the driver before.
C18_TickProgressInRange ==
  [][(simulationRef /\ lastOp' = "tick") =>
       (engineProgress' >= 0 /\ engineProgress' <= 100)]_vars

\* C19: once cleanup() has been called on a simulation none of its
\* animation-frame callbacks runs any more and its geometry is disposed, and
\* after the component has unmounted the driver's tick loop is stopped too.
C19_CleanupStopsFrames ==
  /\ \A k \in 1..Len(sims) : sims[k].late = 0
  /\ ~mounted => (~animationFrame /\ \A k \in 1..Len(sims) : sims[k].cleaned)

\* C20: when the renderer cannot be created the constructor fails with
\* WEBGL_NOT_AVAILABLE, the component shows its fallback from then on, and
\* no tick, seek or resize raises.
C20_Fallback ==
  /\ [](constructError # "none" =>
          (constructError = "WEBGL_NOT_AVAILABLE" /\ webglError))
  /\ [][webglError => webglError']_vars
  /\ [](~raised)

\* In the fallback, with no simulation ever made, ticks have run and a
\* resize has been handled
C20_Witness ==
  /\ webglError
  /\ ~simulationRef
  /\ constructError = "WEBGL_NOT_AVAILABLE"
  /\ currentTimeValue > 0
  /\ isAnimating
  /\ lastOp = "resize"

\* C9: when setYear(y) is called while the driver is Running, the next tick
\* advances from time y - 2025, the position the seek set.
C9_SeekThenTick ==
  [][(simulationRef /\ lastOp = "setYear" /\ isAnimating /\ lastOp' = "tick") =>
       \E deltaTime \in TickDeltas :
         /\ time' = WrapTime(currentTimeValue + deltaTime)
         /\ currentTimeValue' = time']_vars

(***************************************************************************)
(* Claims about the growth curves                                          *)
(***************************************************************************)
\* C6: growth is monotonic: for progress p1 < p2 in [0,1] the height and the
\* pole count at p2 are at least those at p1, in the schematic engine and in
\* the geo-referenced renderer.
C6_Monotonic ==
  (curveOut # <<>> /\ curveOut[1].progress < curveOut[2].progress) =>
    /\ curveOut[2].height >= curveOut[1].height
    /\ curveOut[2].poles >= curveOut[1].poles

\* Both curves evaluated on two progress values with different results
C6_Witness ==
  /\ curveOut # <<>>
  /\ curveOut[1].progress < curveOut[2].progress
  /\ curveOut[1].height < curveOut[2].height
  /\ curveOut[1].poles < curveOut[2].poles
  /\ curveIn.engine = "geo"

\* C7: the curves reach their configured bounds at the ends of the progress
\* domain: at progress <= 0 the height is 0.5 and the pole count 5, at
\* progress >= 1 the height is max_height and the pole count max_poles.
C7_ReachesBounds ==
  curveOut # <<>> =>
    /\ curveOut[1].progress = 0 =>
         curveOut[1].height = minHeight /\ curveOut[1].poles = minPoles
    /\ curveOut[1].progress = curveOut[1].full =>
         /\ curveOut[1].height = curveOut[1].maxHeight
         /\ curveOut[1].poles = curveOut[1].maxPoles

(***************************************************************************)
(* Claims about the schematic clump                                        *)
(***************************************************************************)
Layout(c) == [i \in 1..Len(c.poles) |->
                [x |-> c.poles[i].x, z |-> c.poles[i].z,
                 thickness |-> c.poles[i].thickness]]

\* C1: two independent clumps driven by the same sequence of update calls
\* hold the same stalk positions and thicknesses and return the same
\* {height, poleCount, carbon} after every call.
C1_PairAgrees ==
  calls >= 1 => Layout(clumpA) = Layout(clumpB) /\ retA = retB

\* The exclusion radius recorded when a stalk is placed: thickness * 1.2
ExclusionRadius(pole) == (pole.thickness * 12) \div 10

LiveStalks(c) == {i \in 1..Len(c.poles) : ~c.poles[i].isHarvested}

\* C3: after any sequence of update calls, every two live stalks are at
\* least the sum of their two exclusion radii apart.
C3_NoOverlap ==
  \A i, j \in LiveStalks(clumpA) :
    i < j =>
      LET sum == ExclusionRadius(clumpA.poles[i])
                   + ExclusionRadius(clumpA.poles[j])
      IN  Distance2(clumpA.poles[i], clumpA.poles[j]) >= sum * sum

\* C4: a stalk whose isHarvested flag is true keeps it true over every later
\* update call, whatever the progress passed.
C4_HarvestIrreversible ==
  [][\A i \in 1..Len(clumpA.poles) :
       clumpA.poles[i].isHarvested =>
         /\ i <= Len(clumpA'.poles)
         /\ clumpA'.poles[i].isHarvested]_vars

\* A harvested stalk is still harvested after progress went back to 0
C4_Witness ==
  /\ clumpA.growthProgress = 0
  /\ \E i \in 1..Len(clumpA.poles) : clumpA.poles[i].isHarvested

\* C5: over every update call harvestedPoles does not decrease, and it
\* never exceeds the number of stalks created in the clump.
C5_HarvestedCounter ==
  [][/\ clumpA'.harvestedPoles >= clumpA.harvestedPoles
     /\ clumpA'.harvestedPoles <= Len(clumpA'.poles)]_vars

\* Two harvest passes have run and a later update harvested nothing
C5_Witness ==
  /\ clumpA.harvestedPoles >= 2
  /\ ~harvestLog.ran

\* C11: no stalk is harvested by an update whose progress is <= 0.3, and an
\* update whose progress is > 0.3, made with eligible stalks present and
\* with the harvest draw falling below its probability, harvests.
C11_HarvestGate ==
  [][/\ clumpA'.growthProgress <= 30 =>
          clumpA'.harvestedPoles = clumpA.harvestedPoles
     /\ (harvestLog'.draw /\ clumpA'.growthProgress > 30
                          /\ Eligible(clumpA) # {}) =>
          clumpA'.harvestedPoles > clumpA.harvestedPoles]_vars

\* C12: a harvest pass marks a stalk only if at least 3 simulated years
\* (0.3 of progress) have passed since that stalk was created.
C12_HarvestOnlyMature ==
  [][\A i \in 1..Len(clumpA.poles) :
       (~clumpA.poles[i].isHarvested /\ clumpA'.poles[i].isHarvested) =>
         clumpA'.growthProgress - clumpA.poles[i].createdAt >= 30]_vars

\* C13: in the sweep of progress from 0 to 1 in steps of 0.1, harvestedPoles
\* is 0 while the simulated age is below 3 years, is positive once the
\* sweep has ended, and never decreases.
C13_SweepHarvests ==
  /\ [](clumpA.growthProgress < 30 => clumpA.harvestedPoles = 0)
  /\ [](calls = SweepTicks => clumpA.harvestedPoles > 0)
  /\ [][clumpA'.harvestedPoles >= clumpA.harvestedPoles]_vars

\* C14: after every update call the poleCount returned equals the number of
\* stalks of the collection that are not harvested.
C14_PoleCountIsLive ==
  retA # NoMetrics => retA.poleCount = Cardinality(LiveStalks(clumpA))

\* C15: the stalk collection is append-only over every update call, progress
\* moving backwards included: no stalk leaves it, and the position and the
\* thickness of a stalk in it never change.
C15_AppendOnly ==
  [][/\ Len(clumpA'.poles) >= Len(clumpA.poles)
     /\ \A i \in 1..Len(clumpA.poles) :
          Layout(clumpA')[i] = Layout(clumpA)[i]]_vars

\* Progress is back at 0 with a stalk created at progress 1 and a harvested
\* stalk still in the collection
C15_Witness ==
  /\ clumpA.growthProgress = 0
  /\ \E i \in 1..Len(clumpA.poles) : clumpA.poles[i].createdAt = 100
  /\ \E i \in 1..Len(clumpA.poles) :
       clumpA.poles[i].isHarvested /\ clumpA.poles[i].createdAt = 0

\* C16: addNewPoles(count) comes to its end for every count and every
\* configuration of stalks already placed, with each of the count stalks
\* either pushed or skipped.
C16_Terminates ==
  <>(/\ placing.pc = "done"
     /\ placing.pushed + placing.skipped = placing.count)

\* A call that found every position taken: it used up its attempts on the
\* first stalk and skipped all three
C16_Witness ==
  /\ placing.pc = "done"
  /\ placing.count = 3
  /\ placing.skipped = 3
  /\ placing.attemptsCounter = maxAttempts

\* C10: a harvest pass that finds E eligible stalks marks exactly
\* ceil(0.2 * E) of them, raises harvestedPoles by as much, and every stalk
\* it marks is at least as old as every eligible stalk it leaves.
C10_HarvestPass ==
  [][harvestLog'.ran =>
       LET E == Eligible(clumpA)
           marked == {i \in E : clumpA'.poles[i].isHarvested}
           quota == CHOOSE k \in 0..Cardinality(E) :
                      /\ 5 * k >= Cardinality(E)
                      /\ 5 * (k - 1) < Cardinality(E)
       IN  /\ Len(clumpA'.poles) = Len(clumpA.poles)
           /\ Cardinality(marked) = quota
           /\ clumpA'.harvestedPoles = clumpA.harvestedPoles + quota
           /\ \A i \in 1..Len(clumpA.poles) :
                i \notin E =>
                  clumpA'.poles[i].isHarvested = clumpA.poles[i].isHarvested
           /\ \A i \in marked, j \in E \ marked :
                clumpA.poles[i].ageInYears >= clumpA.poles[j].ageInYears]_vars

\* A pass that found 11 eligible stalks and marked 3 of them
C10_Witness ==
  /\ harvestLog.ran
  /\ harvestLog.eligible = 11
  /\ clumpA.harvestedPoles = 3

(***************************************************************************)
(* Claims about the income derivation                                      *)
(***************************************************************************)
\* C21: for a plot area that is zero or negative both incomes are 0 in every
\* year, and for a fixed non-negative area neither income decreases when the
\* year increases.
C21_IncomeZeroAndMonotonic ==
  /\ [](cards.ran /\ cards.areaHectares <= 0 =>
          cards.carbonIncome = 0 /\ cards.harvestIncome = 0)
  /\ [][(cards.ran /\ cards.areaHectares >= 0 /\ cards'.year >= cards.year) =>
          /\ cards'.carbonIncome >= cards.carbonIncome
          /\ cards'.harvestIncome >= cards.harvestIncome]_vars

\* C22: the carbon income shown is the documented one: the area times
\* 8.75 t CO2e/ha/year times $30/ton, scaled by the growth progress.
C22_DocumentedCarbonIncome ==
  cards.ran =>
    cards.carbonIncome = documentedCarbonIncome(cards.areaHectares, cards.year)

\* C23: calculateCarbon(0, 0) is 0, calculateCarbon is never negative for a
\* height and a pole count that are not negative, and the carbon that update
\* returns is never negative.
C23_CarbonNonNegative ==
  /\ carbonCall.ran => carbonCall.carbon >= 0
  /\ (carbonCall.ran /\ carbonCall.height = 0 /\ carbonCall.poleCount = 0) =>
       carbonCall.carbon = 0
  /\ retA.carbon >= 0

\* update has returned a positive carbon value from a positive calculateCarbon
C23_Witness ==
  /\ calls = 1
  /\ retA.carbon > 0
  /\ carbonCall.ran
  /\ carbonCall.carbon = retA.carbon

\* C24: over every update call a stalk that was harvested before the call
\* stays in the stalk collection with its current height and vertical scale
\* unchanged, and every stalk left live by the call has both recomputed from
\* the clump's new target height.
C24_HarvestedFrozen ==
  [][\A i \in 1..Len(clumpA.poles) :
       /\ i <= Len(clumpA'.poles)
       /\ clumpA.poles[i].isHarvested =>
            /\ clumpA'.poles[i].currentHeight = clumpA.poles[i].currentHeight
            /\ clumpA'.poles[i].scaleY = clumpA.poles[i].scaleY
       /\ ~clumpA'.poles[i].isHarvested =>
            clumpA'.poles[i].scaleY =
              ScaleY(clumpA'.targetHeight, clumpA'.poles[i].growthFactor)]_vars

\* A harvested stalk whose scale is no longer the one a live stalk has
C24_Witness ==
  \E i \in 1..Len(clumpA.poles) :
    /\ clumpA.poles[i].isHarvested
    /\ clumpA.poles[i].scaleY #
         ScaleY(clumpA.targetHeight, clumpA.poles[i].growthFactor)

\* C25: in addNewPoles every requested stalk has a retry budget of its own:
\* each stalk enters its while loop with all maxAttempts candidate draws
\* left, whatever the stalks before it used, so that a stalk is skipped only
\* after maxAttempts candidates drawn for it were rejected.
C25_OwnRetryBudget ==
  [][(placing.pc = "for" /\ placing'.pc = "while") =>
       maxAttempts - placing'.attemptsCounter = maxAttempts]_vars

\* The draws of addBambooPlants for the poles of a view, each named by clump,
\* pole and the offset added to poleSeed (isCenter, poleRadius, poleAngle,
\* heightVariation, thicknessRandom, lightnessRandom), and their seeds
PoleDraws(entities) ==
  {d \in (1..Len(entities)) \X (1..maxPolesDrawn) \X (0..5) :
     d[2] <= Len(entities[d[1]].poles)}

PoleDrawSeeds(entities) ==
  {entities[d[1]].poles[d[2]].seed + d[3] : d \in PoleDraws(entities)}

\* The seeds of the two jitter draws of every clump
JitterDrawSeeds(entities) ==
  {entities[i].seed + k : i \in 1..Len(entities), k \in 0..1}

\* C26: within one plot no two different draws of addBambooPlants have the
\* same seed: the pole draws (clump, pole, offset) have pairwise different
\* seeds, so have the jitter draws, and no jitter seed is a pole-draw seed.
C26_SeedsDistinct ==
  viewerA.drawn =>
    /\ Cardinality(PoleDrawSeeds(viewerA.entities))
         = Cardinality(PoleDraws(viewerA.entities))
    /\ Cardinality(JitterDrawSeeds(viewerA.entities))
         = 2 * Len(viewerA.entities)
    /\ PoleDrawSeeds(viewerA.entities) \cap JitterDrawSeeds(viewerA.entities)
         = {}

\* C27: for the same plot and years y1 < y2, every pole that addBambooPlants
\* draws at y1 it draws at y2 too, in the same clump and at the same
\* position: no clump has fewer poles at y2 and a pole's position does not
\* depend on the year.
C27_GeoMembershipStable ==
  (/\ viewerA.drawn /\ viewerB.drawn
   /\ viewerA.plot = viewerB.plot
   /\ viewerA.year < viewerB.year)
    => \A i \in 1..Len(viewerA.entities) :
         /\ i <= Len(viewerB.entities)
         /\ viewerB.entities[i].x = viewerA.entities[i].x
         /\ viewerB.entities[i].z = viewerA.entities[i].z
         /\ \A p \in 1..Len(viewerA.entities[i].poles) :
              /\ p <= Len(viewerB.entities[i].poles)
              /\ viewerB.entities[i].poles[p].x = viewerA.entities[i].poles[p].x
              /\ viewerB.entities[i].poles[p].z = viewerA.entities[i].poles[p].z

\* The four-clump plot drawn for two years between which every clump gained
\* poles
C27_Witness ==
  /\ viewerA.drawn /\ viewerB.drawn
  /\ viewerA.plot = viewerB.plot
  /\ viewerA.year < viewerB.year
  /\ Len(viewerA.entities) = 4
  /\ Len(viewerA.entities[1].poles) > 0
  /\ Len(viewerA.entities[1].poles) < Len(viewerB.entities[1].poles)

(***************************************************************************)
(* Claims about the Cesium components and the plot page                    *)
(***************************************************************************)
\* C28: whenever CesiumPlotTerrain holds an initialized viewer, the bamboo
\* plants for the current year and showLidar are drawn in it at some later
\* time (or the component has unmounted), with no change of the props
\* needed, also when the viewer was created after the script had loaded.
C28_PlantsDrawn ==
  [](terrain.viewer =>
       <>(\/ ~terrain.viewer
          \/ terrain.drawn = [year |-> terrain.year,
                              showLidar |-> terrain.showLidar]))

\* The viewers of CesiumLandscape that are constructed and not destroyed
LiveViewers == {i \in 1..Len(landscape.viewers) : landscape.viewers[i]}

\* C29: CesiumLandscape has at most one live viewer at any time, and once it
\* has unmounted every viewer it constructed is destroyed and none is
\* constructed any more.
C29_ViewersDestroyed ==
  /\ Cardinality(LiveViewers) <= 1
  /\ ~landscape.mounted => LiveViewers = {}

\* C30: with the overlay mounted, every handler that enters the chain
\* handleYearChange -> setYear -> updateSimulation -> onYearChange comes to
\* its end by returning, for a slider change and for the update made when
\* the overlay mounts.
C30_YearChangeReturns ==
  []((page.pc # "idle" /\ page.overlay) =>
       <>(page.pc = "idle" /\ page.outcome = "returned"))

====
